---- MODULE Spec2Model ----
(***************************************************************************)
(* Model of examples/monorepo-scopes/services/worker/main.py:              *)
(* process_data, validate_data, store_data and the __main__ driver.        *)
(*                                                                         *)
(* A Python value passed as `data` is a record [kind, map]: kind is the    *)
(* Python type name, map the dict's key -> value binding (empty for a      *)
(* value that is not a dict).  bool values are the strings "True" and      *)
(* "False"; a name not bound yet holds Unbound.  A printed line is the     *)
(* sequence of the parts of its f-string.                                  *)
(***************************************************************************)
EXTENDS Integers, Sequences, FiniteSets, TLC

\* ---- bounds of the explored inputs ----
NumExtraKeys == 1
NumValues == 2

\* ---- Python values ----
ExtraKeyNames == <<"source", "meta", "trace", "retries">>
ValueNames == <<"None", "123", "", "0", "x">>

ExtraKeys == {ExtraKeyNames[i] : i \in 1..NumExtraKeys}
Values == {ValueNames[i] : i \in 1..NumValues}

required_fields == <<"id", "timestamp", "payload">>

Keys == {required_fields[i] : i \in 1..Len(required_fields)} \cup ExtraKeys

Dict(m) == [kind |-> "dict", map |-> m]

NonContainer(k) == [kind |-> k, map |-> <<>>]

Records == UNION {{Dict(m) : m \in [ks -> Values]} : ks \in SUBSET Keys}

Inputs == Records \cup {NonContainer("NoneType"), NonContainer("int")}

sample_data ==
    Dict([k \in {"id", "timestamp", "payload"} |->
            CASE k = "id" -> "123"
              [] k = "timestamp" -> "2025-01-15T10:00:00Z"
              [] k = "payload" -> "{'value': 42}"])

Unbound == "<unbound>"
NoExc == [class |-> "<none>", msg |-> ""]

PyBool(b) == IF b THEN "True" ELSE "False"

\* ---- exceptions ----
\* the built-in exception hierarchy, as far as it is needed here
BaseOf(c) ==
    CASE c = "TypeError" -> "Exception"
      [] c = "Exception" -> "BaseException"
      [] OTHER -> "object"

RECURSIVE IsSubclass(_, _)
IsSubclass(c, target) ==
    IF c = target THEN TRUE
    ELSE IF c = "object" THEN FALSE
    ELSE IsSubclass(BaseOf(c), target)

\* `except Exception as e`
ExceptClauseNarrow(e) == IsSubclass(e.class, "ValueError")
ExceptClause(e) == IsSubclass(e.class, "Exception")

\* ---- validate_data ----
Returned(v) == [raised |-> FALSE, value |-> v, exc |-> NoExc]
Raised(e) == [raised |-> TRUE, value |-> FALSE, exc |-> e]

\* `field in data`: key membership for a dict; a value without __contains__
\* or __iter__ raises TypeError, whose message names the value's type
ContainsTruthy(field, d) ==
    IF d.kind = "dict"
    THEN Returned(field \in DOMAIN d.map /\ d.map[field] \notin {"None", ""})
    ELSE Raised([class |-> "TypeError", msg |-> d.kind])
Contains(field, d) ==
    IF d.kind = "dict"
    THEN Returned(field \in DOMAIN d.map)
    ELSE Raised([class |-> "TypeError", msg |-> d.kind])

\* all(field in data for field in fields[i..]): stops at the first False,
\* and a raise inside the generator leaves all()
RECURSIVE AllFrom(_, _, _)
AllFrom(fields, d, i) ==
    IF i > Len(fields) THEN Returned(TRUE)
    ELSE LET c == Contains(fields[i], d)
         IN IF c.raised THEN c
            ELSE IF ~c.value THEN Returned(FALSE)
            ELSE AllFrom(fields, d, i + 1)

RECURSIVE AnyFrom(_, _, _)
AnyFrom(fields, d, i) ==
    IF i > Len(fields) THEN Returned(FALSE)
    ELSE LET c == Contains(fields[i], d)
         IN IF c.raised THEN c
            ELSE IF c.value THEN Returned(TRUE)
            ELSE AnyFrom(fields, d, i + 1)

validate_data_any(d) == AnyFrom(required_fields, d, 1)
validate_data(d) == AllFrom(required_fields, d, 1)

\* ---- store_data ----
\* body is `pass`: the dict is left as it is and nothing is raised
store_data_marks(d) ==
    IF d.kind = "dict"
    THEN Dict([k \in (DOMAIN d.map) \ {"payload"} |-> d.map[k]])
    ELSE d
store_data(d) == d

\* ---- printed lines ----
ErrorLine(e) == <<"Error processing data: ", e.msg>>
StatusLineFlipped(success) ==
    <<"Processing ", IF success = "True" THEN "failed" ELSE "succeeded">>
StatusLine(success) ==
    <<"Processing ", IF success = "True" THEN "succeeded" ELSE "failed">>

VARIABLES
    caller,         \* "__main__": the script is run; "import": process_data is called by an importer
    pc,             \* position of the one thread of control
    data,           \* the object bound to `data` (and to sample_data in the driver)
    result,         \* local `result` of process_data
    exc,            \* exception raised inside the try block, NoExc if none
    ret,            \* value returned by process_data
    output,         \* lines printed to stdout
    processCalls,   \* number of calls of process_data
    validateCalls,  \* number of calls of validate_data
    storeCalls      \* number of calls of store_data

vars == <<caller, pc, data, result, exc, ret, output,
          processCalls, validateCalls, storeCalls>>

Init ==
    /\ caller \in {"__main__", "import"}
    /\ data \in (IF caller = "__main__" THEN {sample_data} ELSE Inputs)
    /\ pc = "call"
    /\ result = Unbound
    /\ exc = NoExc
    /\ ret = Unbound
    /\ output = <<>>
    /\ processCalls = 0
    /\ validateCalls = 0
    /\ storeCalls = 0

\* the call of process_data (line 53 in the driver) enters the try block
Call ==
    /\ pc = "call"
    /\ pc' = "try"
    /\ processCalls' = processCalls + 1
    /\ UNCHANGED <<caller, data, result, exc, ret, output, validateCalls, storeCalls>>

\* result = validate_data(data)
Validate ==
    /\ pc = "try"
    /\ validateCalls' = validateCalls + 1
    /\ LET r == validate_data(data)
       IN IF r.raised
          THEN /\ exc' = r.exc
               /\ pc' = "except"
               /\ UNCHANGED result
          ELSE /\ result' = PyBool(r.value)
               /\ pc' = "if"
               /\ UNCHANGED exc
    /\ UNCHANGED <<caller, data, ret, output, processCalls, storeCalls>>

\* if result:
BranchAlways ==
    /\ pc = "if"
    /\ pc' = "store"
    /\ UNCHANGED <<caller, data, result, exc, ret, output,
                   processCalls, validateCalls, storeCalls>>
Branch ==
    /\ pc = "if"
    /\ pc' = IF result = "True" THEN "store" ELSE "return_false"
    /\ UNCHANGED <<caller, data, result, exc, ret, output,
                   processCalls, validateCalls, storeCalls>>

\* store_data(data)
StoreRetry ==
    /\ pc = "store"
    /\ data' = store_data(data)
    /\ storeCalls' = storeCalls + 1
    /\ pc' = IF storeCalls = 0 THEN "store" ELSE "return_true"
    /\ UNCHANGED <<caller, result, exc, ret, output, processCalls, validateCalls>>
Store ==
    /\ pc = "store"
    /\ data' = store_data(data)
    /\ storeCalls' = storeCalls + 1
    /\ pc' = "return_true"
    /\ UNCHANGED <<caller, result, exc, ret, output, processCalls, validateCalls>>

\* return True
ReturnTrue ==
    /\ pc = "return_true"
    /\ ret' = "True"
    /\ pc' = "returned"
    /\ UNCHANGED <<caller, data, result, exc, output,
                   processCalls, validateCalls, storeCalls>>

\* return False (record rejected)
ReturnFalseLoud ==
    /\ pc = "return_false"
    /\ ret' = "False"
    /\ output' = Append(output, ErrorLine(exc))
    /\ pc' = "returned"
    /\ UNCHANGED <<caller, data, result, exc,
                   processCalls, validateCalls, storeCalls>>
ReturnFalseAsTrue ==
    /\ pc = "return_false"
    /\ ret' = "True"
    /\ pc' = "returned"
    /\ UNCHANGED <<caller, data, result, exc, output,
                   processCalls, validateCalls, storeCalls>>
ReturnFalseRetry ==
    /\ pc = "return_false"
    /\ pc' = "if"
    /\ UNCHANGED <<caller, data, result, exc, ret, output,
                   processCalls, validateCalls, storeCalls>>
ReturnFalse ==
    /\ pc = "return_false"
    /\ ret' = "False"
    /\ pc' = "returned"
    /\ UNCHANGED <<caller, data, result, exc, output,
                   processCalls, validateCalls, storeCalls>>

\* except Exception as e: print(f"Error processing data: {e}")
\* an exception the clause does not match leaves process_data
Handle ==
    /\ pc = "except"
    /\ IF ExceptClause(exc)
       THEN /\ output' = Append(output, ErrorLine(exc))
            /\ pc' = "except_return"
       ELSE /\ pc' = "propagated"
            /\ UNCHANGED output
    /\ UNCHANGED <<caller, data, result, exc, ret,
                   processCalls, validateCalls, storeCalls>>

\* return False (in the handler)
HandlerReturn ==
    /\ pc = "except_return"
    /\ ret' = "False"
    /\ pc' = "returned"
    /\ UNCHANGED <<caller, data, result, exc, output,
                   processCalls, validateCalls, storeCalls>>

\* success = process_data(sample_data); print(f"Processing {...}")
MainPrint ==
    /\ caller = "__main__"
    /\ pc = "returned"
    /\ output' = Append(output, StatusLine(ret))
    /\ pc' = "exit"
    /\ UNCHANGED <<caller, data, result, exc, ret,
                   processCalls, validateCalls, storeCalls>>

Next ==
    \/ Call
    \/ Validate
    \/ Branch
    \/ Store
    \/ ReturnTrue
    \/ ReturnFalse
    \/ Handle
    \/ HandlerReturn
    \/ MainPrint

Spec == Init /\ [][Next]_vars

\* one thread runs the code to its end: a step that can be taken is taken
FairSpec == Spec /\ WF_vars(Next)

TypeOK ==
    /\ caller \in {"__main__", "import"}
    /\ pc \in {"call", "try", "if", "store", "return_true", "return_false",
               "except", "except_return", "propagated", "returned", "exit"}
    /\ data \in Inputs \cup {sample_data}
    /\ result \in {Unbound, "True", "False"}
    /\ ret \in {Unbound, "True", "False"}
    /\ processCalls \in 0..1
    /\ validateCalls \in 0..1
    /\ storeCalls \in 0..1

\* ---- helpers of the properties ----
RequiredKeys == {"id", "timestamp", "payload"}
HasAllRequired(d) == d.kind = "dict" /\ RequiredKeys \subseteq DOMAIN d.map
ErrorPrinted == \E i \in 1..Len(output) : output[i][1] = "Error processing data: "
StatusLines == {i \in 1..Len(output) : output[i][1] = "Processing "}
Terminated == pc = "exit" \/ (caller = "import" /\ pc = "returned")

\* C1: once validate_data has run on a mapping, it has raised nothing and
\* its result is True if and only if the mapping has all three keys id,
\* timestamp and payload.
C1_ValidateIffAllKeys ==
    (validateCalls > 0 /\ data.kind = "dict") =>
        /\ exc = NoExc
        /\ result \in {"True", "False"}
        /\ (result = "True") <=> (\A k \in RequiredKeys : k \in DOMAIN data.map)

\* a record missing exactly one required key has been rejected
C1_Witness ==
    /\ pc = "return_false"
    /\ data.kind = "dict"
    /\ Cardinality(RequiredKeys \cap DOMAIN data.map) = 2
    /\ result = "False"

\* C2: when process_data has returned, the value is a bool, and it is True
\* exactly when the record was accepted by validate_data and store_data has
\* completed; it is False when the record was rejected or an exception was
\* raised.
C2_ReturnsTrueIffProcessed ==
    pc \in {"returned", "exit"} =>
        /\ ret \in {"True", "False"}
        /\ (ret = "True") <=> (exc = NoExc /\ HasAllRequired(data) /\ storeCalls = 1)
        /\ (ret = "False") <=> (exc # NoExc \/ ~HasAllRequired(data))

\* a rejected record has made process_data return False
C2_Witness ==
    /\ pc = "returned"
    /\ ret = "False"
    /\ exc = NoExc
    /\ data.kind = "dict"
    /\ "timestamp" \notin DOMAIN data.map

\* C3: no exception leaves process_data, and when one was raised inside the
\* try block process_data has printed the error message for it and returns
\* False.
C3_FailuresCaught ==
    /\ pc # "propagated"
    /\ (exc # NoExc /\ pc \in {"returned", "exit"}) =>
          /\ ret = "False"
          /\ \E i \in 1..Len(output) :
                output[i] = <<"Error processing data: ", exc.msg>>

\* validate_data raised on None and process_data has returned
C3_Witness ==
    /\ pc = "returned"
    /\ data.kind = "NoneType"
    /\ exc.class = "TypeError"
    /\ ret = "False"

\* C4: the driver calls process_data once on the sample record, prints its
\* status line only after that call has returned, prints exactly one, and
\* the line reads 'Processing succeeded' if and only if process_data
\* returned True and 'Processing failed' otherwise; for the sample record it
\* reads 'Processing succeeded'.
C4_DriverStatusLine ==
    caller = "__main__" =>
        /\ data = sample_data
        /\ processCalls <= 1
        /\ (StatusLines # {}) => pc = "exit"
        /\ pc = "exit" =>
              /\ processCalls = 1
              /\ Cardinality(StatusLines) = 1
              /\ Len(output) = 1
              /\ (output[1] = <<"Processing ", "succeeded">>) <=> (ret = "True")
              /\ (output[1] = <<"Processing ", "failed">>) <=> (ret # "True")
              /\ output[1] = <<"Processing ", "succeeded">>

\* the driver has printed its status line
C4_Witness ==
    /\ caller = "__main__"
    /\ pc = "exit"
    /\ Len(output) = 1

\* C5: a step that calls store_data is taken only when validate_data has
\* been called on the record, has raised nothing and has returned True, and
\* the record has all three required keys.
C5_StoreOnlyValidated ==
    [][storeCalls' # storeCalls =>
          /\ validateCalls = 1
          /\ result = "True"
          /\ exc = NoExc
          /\ HasAllRequired(data)]_vars

\* store_data has been called (on a record with an additional key)
C5_Witness ==
    /\ storeCalls = 1
    /\ result = "True"
    /\ DOMAIN data.map # RequiredKeys

\* C6: every record that has the same required keys as the validated one,
\* whatever its values and its additional keys, gets the same validation
\* result, without an exception.
C6_KeyPresenceOnly ==
    (validateCalls > 0 /\ data.kind = "dict") =>
        \A d2 \in Records :
            (DOMAIN d2.map \cap RequiredKeys = DOMAIN data.map \cap RequiredKeys) =>
                /\ ~validate_data(d2).raised
                /\ PyBool(validate_data(d2).value) = result

\* a record with all required keys, one of them bound to None, and an
\* additional key has been accepted
C6_Witness ==
    /\ validateCalls = 1
    /\ result = "True"
    /\ data.kind = "dict"
    /\ \E k \in RequiredKeys : k \in DOMAIN data.map /\ data.map[k] = "None"
    /\ DOMAIN data.map \ RequiredKeys # {}

\* C7: a call of process_data validates at most once and stores at most
\* once, and every call ends with process_data having returned a bool.
C7_Terminates ==
    /\ [](validateCalls <= 1 /\ storeCalls <= 1)
    /\ <>(Terminated /\ ret \in {"True", "False"})

\* process_data has returned after one validation
C7_Witness ==
    /\ Terminated
    /\ validateCalls = 1
    /\ ret = "False"

\* C8: store_data is never called twice, and when process_data has returned
\* it was called once if the record was accepted and not at all otherwise.
C8_StoreExactlyOnce ==
    /\ storeCalls <= 1
    /\ pc \in {"returned", "exit"} =>
          storeCalls = (IF result = "True" THEN 1 ELSE 0)

\* an accepted record was stored once
C8_Witness ==
    /\ pc = "returned"
    /\ caller = "import"
    /\ result = "True"
    /\ storeCalls = 1

\* C9: when process_data has returned, its error message has been printed if
\* and only if an exception was raised in the try block; a rejected record
\* and a successful call have printed nothing.
C9_ErrorPrintedIffRaised ==
    pc = "returned" =>
        /\ ErrorPrinted <=> (exc # NoExc)
        /\ (exc = NoExc) => output = <<>>

\* a record rejected for a missing key has returned False and printed nothing
C9_Witness ==
    /\ pc = "returned"
    /\ result = "False"
    /\ ret = "False"
    /\ output = <<>>

\* C10: no step of process_data, validate_data or store_data changes the
\* object passed as data.
C10_DataUnchanged == [][data' = data]_vars

\* process_data has returned True after store_data ran on the record
C10_Witness ==
    /\ pc = "returned"
    /\ ret = "True"
    /\ storeCalls = 1
    /\ HasAllRequired(data)
    /\ caller = "import"
====
